---- MODULE Spec2Model ----
(***************************************************************************)
(* Model of hwsim_perf.py: the test() orchestration of cgroups, network    *)
(* namespaces and daemons on a contextlib.ExitStack, the wpa_cli           *)
(* connection barrier and the iperf client launch.                         *)
(*                                                                         *)
(* The orchestrator is a single thread; pc is its position in test().      *)
(* External commands, file-system operations and process spawns either     *)
(* succeed or raise, chosen nondeterministically.  A child process is      *)
(* observed by the orchestrator only when it is signalled or waited for,   *)
(* so "exited on its own" is resolved at the moment of that observation.   *)
(***************************************************************************)
EXTENDS Naturals, Sequences, FiniteSets

NumClients == 2     \* the num_clients argument of test()
MaxLines == 2       \* lines the wpa_cli processes print, all together, during a run

VARIABLES
    pc,         \* "discover", "acquire", "barrier", "launch", "unwind", "done"
    ndevs,      \* entries found under /sys/class/mac80211_hwsim
    cpulimit,   \* the cpulimit argument of test(), in percent of one core
    silent,     \* clients (1-based) whose wpa_cli never prints the marker nor closes stdout
    files,      \* text last written to the CPU cgroup's control files, << >> if none
    ip,         \* index of the next acquisition step (with-body, lines 127-165)
    bi,         \* 1-based index in wpa_clis of the barrier loop (line 167)
    li,         \* 1-based index in client_namespaces of the launch loop (line 173)
    stack,      \* the ExitStack: resources whose __exit__ is registered, oldest first
    exists,     \* cgroup directories, namespaces and temp directories present on the host
    created,    \* those of them this run created
    running,    \* child processes spawned and not yet waited for
    exited,     \* child processes waited for (Popen.__exit__ returned)
    selfIn,     \* cgroups whose tasks file lists the orchestrator's pid
    consumed,   \* per client (1-based): the lines the for loop got from wpa_cli.stdout
    wait,       \* per client: "idle", "waiting", "ended" (break), "eof" or "raised"
    termCalls,  \* per daemon: how many times terminate() was called on it
    rel,        \* outcome of terminate() in the Daemon.__exit__ in progress, or "idle"
    relFailed,  \* resources whose __exit__ raised
    foreign,    \* cgroups found listing a task of another origin at their __exit__
    cgFail,     \* per cgroup: what its __exit__ failed at, or "none"
    failedAt,   \* where the with-body (or discovery) raised, and which error
    acqLog,     \* history: the resources pushed on the stack, in order
    relLog,     \* history: the resources whose __exit__ was invoked, in order
    log         \* history of the orchestrator's events, in order

vars == <<pc, ndevs, cpulimit, silent, files, ip, bi, li, stack, exists, created, running, exited,
          selfIn, consumed, wait, termCalls, rel, relFailed, foreign, cgFail,
          failedAt, acqLog, relLog, log>>

----------------------------------------------------------------------------
(* Resources: <<kind, i>>, i = 0 for the AP side, the client index otherwise *)

CGroupKinds == {"cpu_cg", "cpuset_cg"}
NsKinds     == {"ap_ns", "client_ns"}
DirKinds    == {"client_temp"}
DaemonKinds == {"hostapd", "iperf_s", "wpa_supplicant", "wpa_cli"}
PopenKinds  == {"iperf_c"}
ProcKinds   == DaemonKinds \cup PopenKinds

AllDaemons ==
    {<<"hostapd", 0>>, <<"iperf_s", 0>>} \cup
    {<<k, i>> : k \in {"wpa_supplicant", "wpa_cli"}, i \in 0..(NumClients - 1)}

CGroups == {<<"cpu_cg", 0>>, <<"cpuset_cg", 0>>}

Kind(r) == r[1]

Marker == "CTRL-EVENT-CONNECTED"
Lines  == {Marker, "other"}

Ev(e, r, c) == [ev |-> e, r |-> r, c |-> c]
Step(op, r, c) == [op |-> op, r |-> r, c |-> c]

(* argparse defaults, lines 179 and 185 *)
DefaultNumClients == 1
DefaultCpuLimit == 100

(* values of --cpulimit tried *)
CpuLimits == {1, 50, DefaultCpuLimit, 400}

(* line 128 *)
Period == 100 * 1000

(* Mutant: the percentage is scaled by 100 instead of 1000 *)
QuotaPerCent(limit) == limit * 100

(* line 129 *)
Quota(limit) == limit * 1000

(* str() of a non-negative int (CGroup.__setitem__, line 86): its decimal   *)
(* digits, most significant first                                           *)
RECURSIVE Str(_)
Str(n) == IF n < 10 THEN << n >> ELSE Str(n \div 10) \o << n % 10 >>

CpuFiles == {"cpu.cfs_period_us", "cpu.cfs_quota_us"}

NoFailure == [phase |-> "none", idx |-> 0, err |-> "none"]

Reverse(s) == [j \in 1..Len(s) |-> s[Len(s) + 1 - j]]

----------------------------------------------------------------------------
(* The with-body up to the barrier, as the sequence of its steps.           *)
(*   enter    stack.enter_context(CGroup / NetNS / TemporaryDirectory)      *)
(*   write    cgroup[file] = value                                          *)
(*   add_self cgroup.add_self()                                             *)
(*   cmd      command(...) / ns.command(...) / ns.move_phy(...)             *)
(*   spawn    stack.enter_context(ns.daemon(...))                           *)

APSteps ==
    << Step("enter",    <<"cpu_cg", 0>>,    "mkdir"),
       Step("write",    <<"cpu_cg", 0>>,    "cpu.cfs_period_us"),
       Step("write",    <<"cpu_cg", 0>>,    "cpu.cfs_quota_us"),
       Step("add_self", <<"cpu_cg", 0>>,    "tasks"),
       Step("enter",    <<"cpuset_cg", 0>>, "mkdir"),
       Step("write",    <<"cpuset_cg", 0>>, "cpuset.mems"),
       Step("write",    <<"cpuset_cg", 0>>, "cpuset.cpus"),
       Step("enter",    <<"ap_ns", 0>>,     "netns add"),
       Step("cmd",      <<"ap_ns", 0>>,     "move_phy"),
       Step("cmd",      <<"ap_ns", 0>>,     "link set name"),
       Step("cmd",      <<"ap_ns", 0>>,     "addr add"),
       Step("spawn",    <<"hostapd", 0>>,   "daemon"),
       Step("spawn",    <<"iperf_s", 0>>,   "daemon") >>

ClientSteps(i) ==
    << Step("enter", <<"client_temp", i>>,    "mkdtemp"),
       Step("enter", <<"client_ns", i>>,      "netns add"),
       Step("cmd",   <<"client_ns", i>>,      "move_phy"),
       Step("cmd",   <<"client_ns", i>>,      "addr add"),
       Step("spawn", <<"wpa_supplicant", i>>, "daemon"),
       Step("spawn", <<"wpa_cli", i>>,        "daemon") >>

RECURSIVE ClientLoop(_)
ClientLoop(n) == IF n = 0 THEN << >> ELSE ClientLoop(n - 1) \o ClientSteps(n - 1)

(* Mutant: the AP's daemons are started only after the client loop *)
AcqStepsClientsFirst(n) == SubSeq(APSteps, 1, 11) \o ClientLoop(n) \o SubSeq(APSteps, 12, 13)

AcqSteps(n) == APSteps \o ClientLoop(n)

(* sim_devs after the AP device is taken off the front (lines 123-124) *)
NClients == ndevs - 1

----------------------------------------------------------------------------
(* contextlib.ExitStack: callbacks run last-in first-out; a callback that   *)
(* raises replaces the pending exception and the loop goes on.              *)

Top(st) == st[Len(st)]

(* Mutant: a callback that raises ends the unwind *)
RestAbort(st, raised) == IF raised THEN << >> ELSE SubSeq(st, 1, Len(st) - 1)

Rest(st, raised) == SubSeq(st, 1, Len(st) - 1)

(* Sequencing of the three loops of the with-body (lines 152, 167, 173) *)
AfterLaunch(l, n) == IF l > n THEN "unwind" ELSE "launch"

(* Mutant: the launch loop starts as soon as one wait has ended *)
AfterWaitEarly(b, n) == AfterLaunch(1, n)

AfterWait(b, n) == IF b > n THEN AfterLaunch(1, n) ELSE "barrier"
AfterStep(i, n) == IF i > Len(AcqSteps(n)) THEN AfterWait(1, n) ELSE "acquire"

(* lines 169-171: the marker test, and what the loop body does with a line *)
HasMarker(line) == line = Marker

(* Mutant: terminate() is outside the if, every line read terminates *)
OnLineTermAlways(line) == [term |-> TRUE, brk |-> HasMarker(line)]

(* Mutant: the break is outside the if, every line ends the wait *)
OnLineBreakAlways(line) == [term |-> HasMarker(line), brk |-> TRUE]

(* Mutant: the break is missing, the loop reads on after the marker *)
OnLineNoBreak(line) == [term |-> HasMarker(line), brk |-> FALSE]

OnLine(line) == [term |-> HasMarker(line), brk |-> HasMarker(line)]

(* Mutant: the iperf clients are started with client_ns.daemon *)
IsDaemonAny(r) == Kind(r) \in ProcKinds

(* The processes held as Daemon objects: those made by NetNS.daemon (lines  *)
(* 48-49); NetNS.popen (54-55) returns a plain subprocess.Popen             *)
IsDaemon(r) == Kind(r) \in DaemonKinds

(* The namespace a process is started in: ap_ns.daemon (lines 145, 147),    *)
(* client_ns.daemon (160, 162), client_ns.popen (174)                       *)
NsOf(p) ==
    IF Kind(p) \in {"hostapd", "iperf_s"} THEN <<"ap_ns", 0>> ELSE <<"client_ns", p[2]>>

(* Member tasks of a cgroup other than the orchestrator: every child is     *)
(* forked after cpu_cg.add_self() and inherits the cpu group; the iperf     *)
(* processes enrol themselves in the cpuset group in their preexec_fn.      *)
Members(cg) ==
    IF Kind(cg) = "cpu_cg" THEN running
    ELSE {p \in running : Kind(p) \in {"iperf_s", "iperf_c"}}

----------------------------------------------------------------------------
InitState ==
    /\ pc = "discover"
    /\ files = [f \in CpuFiles |-> << >>]
    /\ ip = 1
    /\ bi = 1
    /\ li = 1
    /\ stack = << >>
    /\ created = {}
    /\ running = {}
    /\ exited = {}
    /\ selfIn = {}
    /\ consumed = [k \in 1..NumClients |-> << >>]
    /\ wait = [k \in 1..NumClients |-> "idle"]
    /\ termCalls = [d \in AllDaemons |-> 0]
    /\ rel = "idle"
    /\ relFailed = {}
    /\ foreign = {}
    /\ cgFail = [cg \in CGroups |-> "none"]
    /\ failedAt = NoFailure
    /\ acqLog = << >>
    /\ relLog = << >>
    /\ log = << >>

(* Any device count, the cgroup directories left over from an earlier run   *)
(* or not, the default CPU limit                                            *)
Init ==
    /\ InitState
    /\ ndevs \in 0..(NumClients + 1)
    /\ exists \in {{}, CGroups}
    /\ cpulimit = DefaultCpuLimit
    /\ silent = {}

(* An exception leaves the with-body: ExitStack.__exit__ runs next.  The    *)
(* caller appends the "raise" event to the log.                             *)
Raise(phase, idx, err) ==
    /\ failedAt' = [phase |-> phase, idx |-> idx, err |-> err]
    /\ pc' = "unwind"

(* lines 110-124: reload the driver, list the devices, split off the AP's.  *)
(* A failing rmmod or modprobe raises CalledProcessError, an empty device   *)
(* list raises IndexError at sim_devs[0]; any other count is accepted.      *)
Discover ==
    /\ UNCHANGED <<foreign, cgFail, silent, cpulimit, files>>
    /\ pc = "discover"
    /\ \/ /\ failedAt' = [phase |-> "discover", idx |-> 0, err |-> "CalledProcessError"]
          /\ pc' = "done"
       \/ /\ ndevs = 0
          /\ failedAt' = [phase |-> "discover", idx |-> 1, err |-> "IndexError"]
          /\ pc' = "done"
       \/ /\ ndevs > 0
          /\ pc' = "acquire"
          /\ UNCHANGED failedAt
    /\ UNCHANGED <<ndevs, ip, bi, li, stack, exists, created, running, exited,
                   selfIn, consumed, wait, termCalls, rel, relFailed,
                   acqLog, relLog, log>>

(* lines 128-129: the value given to cpu_cg[file] = value *)
WriteValue(file) == IF file = "cpu.cfs_period_us" THEN Period ELSE Quota(cpulimit)

StepErr(s) ==
    IF s.op = "cmd" \/ Kind(s.r) \in NsKinds THEN "CalledProcessError" ELSE "OSError"

(* One step of lines 127-165 succeeds *)
StepOk(s) ==
    /\ \/ /\ s.op = "enter"
          /\ exists' = exists \cup {s.r}
          /\ created' = created \cup ({s.r} \ exists)
          /\ stack' = Append(stack, s.r)
          /\ acqLog' = Append(acqLog, s.r)
          /\ log' = Append(log, Ev("push", s.r, s.c))
          /\ UNCHANGED <<running, selfIn, files>>
       \/ /\ s.op \in {"write", "cmd"}
          /\ files' = IF s.op = "write" /\ s.c \in CpuFiles
                      THEN [files EXCEPT ![s.c] = Str(WriteValue(s.c))]
                      ELSE files
          /\ log' = Append(log, Ev("cmd", s.r, s.c))
          /\ UNCHANGED <<exists, created, stack, acqLog, running, selfIn>>
       \/ /\ s.op = "add_self"
          /\ selfIn' = selfIn \cup {s.r}
          /\ log' = Append(log, Ev("cmd", s.r, s.c))
          /\ UNCHANGED <<exists, created, stack, acqLog, running, files>>
       \/ /\ s.op = "spawn"
          /\ running' = running \cup {s.r}
          /\ stack' = Append(stack, s.r)
          /\ acqLog' = Append(acqLog, s.r)
          /\ log' = Append(log, Ev("push", s.r, s.c))
          /\ UNCHANGED <<exists, created, selfIn, files>>
    /\ ip' = ip + 1
    /\ pc' = AfterStep(ip + 1, NClients)
    /\ UNCHANGED failedAt

(* Mutant: command() runs with check=False, a failed command is passed over *)
StepFailUnchecked(s) ==
    /\ ~(s.op = "enter" /\ Kind(s.r) \in CGroupKinds /\ s.r \in exists)
    /\ failedAt' = [phase |-> "acquire", idx |-> ip, err |-> StepErr(s)]
    /\ log' = Append(log, Ev("raise", s.r, s.c))
    /\ IF s.op = "cmd"
       THEN ip' = ip + 1 /\ pc' = AfterStep(ip + 1, NClients)
       ELSE pc' = "unwind" /\ UNCHANGED ip
    /\ UNCHANGED <<stack, acqLog, exists, created, running, selfIn, files>>

(* One step of lines 127-165 raises: nothing is created or pushed by it.    *)
(* CGroup.__enter__ makes no call that can fail when the directory exists.  *)
StepFail(s) ==
    /\ ~(s.op = "enter" /\ Kind(s.r) \in CGroupKinds /\ s.r \in exists)
    /\ Raise("acquire", ip, StepErr(s))
    /\ log' = Append(log, Ev("raise", s.r, s.c))
    /\ UNCHANGED <<ip, stack, acqLog, exists, created, running, selfIn, files>>

Acquire ==
    /\ UNCHANGED <<foreign, cgFail, silent, cpulimit>>
    /\ pc = "acquire"
    /\ LET s == AcqSteps(NClients)[ip] IN StepOk(s) \/ StepFail(s)
    /\ UNCHANGED <<ndevs, bi, li, exited, consumed, wait, termCalls, rel,
                   relFailed, relLog>>

----------------------------------------------------------------------------
(* lines 167-171: the connection barrier *)

WpaCli(b) == <<"wpa_cli", b - 1>>

(* what the iterator over the stdout of client b's wpa_cli can yield *)
StreamLines(b) == IF b \in silent THEN Lines \ {Marker} ELSE Lines

StartEv(b) == IF wait[b] = "idle" THEN << Ev("wait", WpaCli(b), "stdout") >> ELSE << >>

RECURSIVE LinesRead(_)
LinesRead(n) == IF n = 0 THEN 0 ELSE LinesRead(n - 1) + Len(consumed[n])

(* The iterator over wpa_cli.stdout yields a line.  On the marker the loop  *)
(* calls wpa_cli.terminate(), which may raise, and breaks.                  *)
BarrierLine ==
    /\ UNCHANGED <<foreign, cgFail, silent, cpulimit, files>>
    /\ pc = "barrier"
    /\ LinesRead(NumClients) < MaxLines
    /\ \E line \in StreamLines(bi) :
         LET r == WpaCli(bi)
             o == OnLine(line)
             termEv == IF o.term THEN << Ev("term", r, "barrier") >> ELSE << >>
         IN
         /\ consumed' = [consumed EXCEPT ![bi] = Append(@, line)]
         /\ termCalls' = [termCalls EXCEPT ![r] = IF o.term THEN @ + 1 ELSE @]
         /\ \/ /\ ~o.brk
               /\ wait' = [wait EXCEPT ![bi] = "waiting"]
               /\ log' = log \o StartEv(bi) \o termEv
               /\ UNCHANGED <<pc, bi, failedAt>>
            \/ /\ o.brk
               /\ wait' = [wait EXCEPT ![bi] = "ended"]
               /\ log' = log \o StartEv(bi) \o termEv \o << Ev("waitend", r, "marker") >>
               /\ bi' = bi + 1
               /\ pc' = AfterWait(bi + 1, NClients)
               /\ UNCHANGED failedAt
            \/ /\ o.term
               /\ wait' = [wait EXCEPT ![bi] = "raised"]
               /\ log' = log \o StartEv(bi) \o termEv \o << Ev("raise", r, "terminate") >>
               /\ Raise("barrier", bi, "OSError")
               /\ UNCHANGED bi
    /\ UNCHANGED <<ndevs, ip, li, stack, exists, created, running, exited,
                   selfIn, rel, relFailed, acqLog, relLog>>

(* Mutant: end of output without the marker is raised as an error *)
BarrierEOFRaise ==
    /\ UNCHANGED <<foreign, cgFail, silent, cpulimit, files>>
    /\ pc = "barrier"
    /\ wait' = [wait EXCEPT ![bi] = "eof"]
    /\ log' = log \o StartEv(bi) \o << Ev("raise", WpaCli(bi), "eof") >>
    /\ Raise("barrier", bi, "SetupError")
    /\ UNCHANGED <<ndevs, ip, bi, li, stack, exists, created, running, exited,
                   selfIn, consumed, termCalls, rel, relFailed, acqLog, relLog>>

(* Mutant: the wait gives up on a stream that stays open and silent *)
BarrierEOFTimeout ==
    /\ UNCHANGED <<foreign, cgFail, silent, cpulimit, files>>
    /\ pc = "barrier"
    /\ wait' = [wait EXCEPT ![bi] = "eof"]
    /\ log' = log \o StartEv(bi) \o << Ev("waitend", WpaCli(bi), "eof") >>
    /\ bi' = bi + 1
    /\ pc' = AfterWait(bi + 1, NClients)
    /\ UNCHANGED <<ndevs, ip, li, stack, exists, created, running, exited,
                   selfIn, consumed, termCalls, rel, relFailed, failedAt,
                   acqLog, relLog>>

(* the iterator over wpa_cli.stdout is exhausted, which takes the process   *)
(* to close its stdout: the inner loop just ends                            *)
BarrierEOF ==
    /\ UNCHANGED <<foreign, cgFail, silent, cpulimit, files>>
    /\ pc = "barrier"
    /\ bi \notin silent
    /\ wait' = [wait EXCEPT ![bi] = "eof"]
    /\ log' = log \o StartEv(bi) \o << Ev("waitend", WpaCli(bi), "eof") >>
    /\ bi' = bi + 1
    /\ pc' = AfterWait(bi + 1, NClients)
    /\ UNCHANGED <<ndevs, ip, li, stack, exists, created, running, exited,
                   selfIn, consumed, termCalls, rel, relFailed, failedAt,
                   acqLog, relLog>>

(* Mutant: the iperf client is started without stack.enter_context *)
LaunchUnscoped ==
    /\ UNCHANGED <<foreign, cgFail, silent, cpulimit, files>>
    /\ pc = "launch"
    /\ \/ /\ running' = running \cup {<<"iperf_c", li - 1>>}
          /\ log' = Append(log, Ev("spawn", <<"iperf_c", li - 1>>, "popen"))
          /\ li' = li + 1
          /\ pc' = AfterLaunch(li + 1, NClients)
          /\ UNCHANGED <<failedAt, stack, acqLog>>
       \/ /\ Raise("launch", li, "OSError")
          /\ log' = Append(log, Ev("raise", <<"iperf_c", li - 1>>, "popen"))
          /\ UNCHANGED <<running, stack, acqLog, li>>
    /\ UNCHANGED <<ndevs, ip, bi, exists, created, exited, selfIn, consumed,
                   wait, termCalls, rel, relFailed, relLog>>

(* lines 173-174: one iperf client per client namespace, a plain Popen *)
Launch ==
    /\ UNCHANGED <<foreign, cgFail, silent, cpulimit, files>>
    /\ pc = "launch"
    /\ \/ /\ running' = running \cup {<<"iperf_c", li - 1>>}
          /\ stack' = Append(stack, <<"iperf_c", li - 1>>)
          /\ acqLog' = Append(acqLog, <<"iperf_c", li - 1>>)
          /\ log' = Append(log, Ev("push", <<"iperf_c", li - 1>>, "popen"))
          /\ li' = li + 1
          /\ pc' = AfterLaunch(li + 1, NClients)
          /\ UNCHANGED failedAt
       \/ /\ Raise("launch", li, "OSError")
          /\ log' = Append(log, Ev("raise", <<"iperf_c", li - 1>>, "popen"))
          /\ UNCHANGED <<running, stack, acqLog, li>>
    /\ UNCHANGED <<ndevs, ip, bi, exists, created, exited, selfIn, consumed,
                   wait, termCalls, rel, relFailed, relLog>>

----------------------------------------------------------------------------
(* ExitStack.__exit__ : the registered __exit__ methods, newest first *)

Unwinding == pc = "unwind" /\ stack # << >>

(* Daemon.__exit__, lines 27-30: terminate().  "sent": SIGTERM delivered;   *)
(* "gone": the process had already exited (no signal, or ProcessLookupError *)
(* swallowed); "error": terminate() raised something else, which the return *)
(* in the finally clause discards.                                          *)
ExitDaemonTerminate ==
    /\ UNCHANGED <<foreign, cgFail, silent, cpulimit, files>>
    /\ Unwinding
    /\ IsDaemon(Top(stack))
    /\ rel = "idle"
    /\ rel' \in {"sent", "gone", "error"}
    /\ termCalls' = [termCalls EXCEPT ![Top(stack)] = @ + 1]
    /\ relLog' = Append(relLog, Top(stack))
    /\ log' = log \o << Ev("release", Top(stack), "__exit__"),
                        Ev("term", Top(stack), "__exit__") >>
    /\ UNCHANGED <<pc, ndevs, ip, bi, li, stack, exists, created, running, exited,
                   selfIn, consumed, wait, relFailed, failedAt, acqLog>>

(* Mutant: __exit__ returns without waiting for the process *)
ExitNoWait ==
    /\ UNCHANGED <<foreign, cgFail, silent, cpulimit, files>>
    /\ Unwinding
    /\ \/ /\ IsDaemon(Top(stack))
          /\ rel # "idle"
          /\ UNCHANGED <<relLog, log>>
       \/ /\ Kind(Top(stack)) \in ProcKinds /\ ~IsDaemon(Top(stack))
          /\ rel = "idle"
          /\ relLog' = Append(relLog, Top(stack))
          /\ log' = Append(log, Ev("release", Top(stack), "__exit__"))
    /\ rel' = "idle"
    /\ stack' = SubSeq(stack, 1, Len(stack) - 1)
    /\ UNCHANGED <<pc, ndevs, ip, bi, li, exists, created, running, exited, selfIn,
                   consumed, wait, termCalls, relFailed, failedAt, acqLog>>

(* Mutant: the failure of terminate() on an exited process is re-raised     *)
(* after the wait, the release of a dead process raises                     *)
ExitWaitLookupRaises ==
    /\ UNCHANGED <<foreign, cgFail, silent, cpulimit, files>>
    /\ Unwinding
    /\ \/ /\ IsDaemon(Top(stack))
          /\ rel # "idle"
          /\ relFailed' = IF rel = "gone" THEN relFailed \cup {Top(stack)} ELSE relFailed
          /\ UNCHANGED <<relLog, log>>
       \/ /\ Kind(Top(stack)) \in ProcKinds /\ ~IsDaemon(Top(stack))
          /\ rel = "idle"
          /\ relLog' = Append(relLog, Top(stack))
          /\ log' = Append(log, Ev("release", Top(stack), "__exit__"))
          /\ UNCHANGED relFailed
    /\ running' = running \ {Top(stack)}
    /\ exited' = exited \cup {Top(stack)}
    /\ rel' = "idle"
    /\ stack' = Rest(stack, FALSE)
    /\ UNCHANGED <<pc, ndevs, ip, bi, li, exists, created, selfIn, consumed, wait,
                   termCalls, failedAt, acqLog>>

(* Popen.__exit__ (line 32 for a Daemon; directly for the iperf clients):   *)
(* closes the pipes and wait()s, which returns once the process has exited. *)
ExitWait ==
    /\ UNCHANGED <<foreign, cgFail, silent, cpulimit, files>>
    /\ Unwinding
    /\ \/ /\ IsDaemon(Top(stack))
          /\ rel # "idle"
          /\ UNCHANGED <<relLog, log>>
       \/ /\ Kind(Top(stack)) \in ProcKinds /\ ~IsDaemon(Top(stack))
          /\ rel = "idle"
          /\ relLog' = Append(relLog, Top(stack))
          /\ log' = Append(log, Ev("release", Top(stack), "__exit__"))
    /\ running' = running \ {Top(stack)}
    /\ exited' = exited \cup {Top(stack)}
    /\ rel' = "idle"
    /\ stack' = Rest(stack, FALSE)
    /\ UNCHANGED <<pc, ndevs, ip, bi, li, exists, created, selfIn, consumed, wait,
                   termCalls, relFailed, failedAt, acqLog>>

(* NetNS.__exit__, lines 44-46: ip netns delete, which may exit non-zero *)
ExitNetNS ==
    /\ UNCHANGED <<foreign, cgFail, silent, cpulimit, files>>
    /\ Unwinding
    /\ Kind(Top(stack)) \in NsKinds
    /\ \/ /\ exists' = exists \ {Top(stack)}
          /\ stack' = Rest(stack, FALSE)
          /\ UNCHANGED relFailed
       \/ /\ relFailed' = relFailed \cup {Top(stack)}
          /\ stack' = Rest(stack, TRUE)
          /\ UNCHANGED exists
    /\ relLog' = Append(relLog, Top(stack))
    /\ log' = Append(log, Ev("release", Top(stack), "__exit__"))
    /\ UNCHANGED <<pc, ndevs, ip, bi, li, created, running, exited, selfIn,
                   consumed, wait, termCalls, rel, failedAt, acqLog>>

(* What CGroup.__exit__ leaves of the orchestrator's memberships: the own   *)
(* pid, if listed in tasks, is written to the parent's tasks (lines 75-78). *)
(* Mutant: the move to the parent is missing                                *)
MigratedNot(sIn, cg) == sIn

Migrated(sIn, cg) == sIn \ {cg}

(* The kernel removes a cgroup directory only when no task is a member *)
Empty(cg, sIn, other) == Members(cg) = {} /\ cg \notin sIn /\ ~other

(* CGroup.__exit__, lines 74-80: move the own pid to the parent if listed,  *)
(* then rmdir.  "tasks": reading tasks or the move fails, rmdir is not      *)
(* reached; "busy": rmdir refused, the group has members.  other: a task    *)
(* that is not of this run is a member when rmdir is called.                *)
ExitCGroup ==
    /\ UNCHANGED <<cpulimit, silent, files>>
    /\ Unwinding
    /\ Kind(Top(stack)) \in CGroupKinds
    /\ LET cg == Top(stack)
           moved == Migrated(selfIn, cg)
       IN
       \/ /\ cgFail' = [cgFail EXCEPT ![cg] = "tasks"]
          /\ relFailed' = relFailed \cup {cg}
          /\ stack' = Rest(stack, TRUE)
          /\ UNCHANGED <<exists, selfIn, foreign>>
       \/ /\ selfIn' = moved
          /\ \E other \in BOOLEAN :
               /\ foreign' = IF other THEN foreign \cup {cg} ELSE foreign
               /\ \/ /\ Empty(cg, moved, other)
                     /\ exists' = exists \ {cg}
                     /\ stack' = Rest(stack, FALSE)
                     /\ UNCHANGED <<relFailed, cgFail>>
                  \/ /\ ~Empty(cg, moved, other)
                     /\ cgFail' = [cgFail EXCEPT ![cg] = "busy"]
                     /\ relFailed' = relFailed \cup {cg}
                     /\ stack' = Rest(stack, TRUE)
                     /\ UNCHANGED exists
    /\ relLog' = Append(relLog, Top(stack))
    /\ log' = Append(log, Ev("release", Top(stack), "__exit__"))
    /\ UNCHANGED <<pc, ndevs, ip, bi, li, created, running, exited, consumed,
                   wait, termCalls, rel, failedAt, acqLog>>

(* TemporaryDirectory.__exit__ (entered at line 153): remove the directory. *)
(* The supplicant that put its control socket there has been released; a    *)
(* failing removal is left out, the directory is no kernel resource.        *)
ExitTempDir ==
    /\ UNCHANGED <<foreign, cgFail, silent, cpulimit, files>>
    /\ Unwinding
    /\ Kind(Top(stack)) \in DirKinds
    /\ exists' = exists \ {Top(stack)}
    /\ stack' = Rest(stack, FALSE)
    /\ relLog' = Append(relLog, Top(stack))
    /\ log' = Append(log, Ev("release", Top(stack), "__exit__"))
    /\ UNCHANGED <<pc, ndevs, ip, bi, li, created, running, exited, selfIn,
                   consumed, wait, termCalls, rel, relFailed, failedAt, acqLog>>

(* the stack is empty: the with statement is left *)
ScopeExit ==
    /\ UNCHANGED <<foreign, cgFail, silent, cpulimit, files>>
    /\ pc = "unwind"
    /\ stack = << >>
    /\ pc' = "done"
    /\ UNCHANGED <<ndevs, ip, bi, li, stack, exists, created, running, exited,
                   selfIn, consumed, wait, termCalls, rel, relFailed, failedAt,
                   acqLog, relLog, log>>

Next ==
    \/ Discover
    \/ Acquire
    \/ BarrierLine
    \/ BarrierEOF
    \/ Launch
    \/ ExitDaemonTerminate
    \/ ExitWait
    \/ ExitNetNS
    \/ ExitCGroup
    \/ ExitTempDir
    \/ ScopeExit

Spec == Init /\ [][Next]_vars

(* The run of the defaults (one client, its two devices found, no leftover  *)
(* cgroup) under each CPU limit                                             *)
InitLimits ==
    /\ InitState
    /\ ndevs = DefaultNumClients + 1
    /\ exists = {}
    /\ cpulimit \in CpuLimits
    /\ silent = {}

SpecLimits == InitLimits /\ [][Next]_vars

(* All the devices found, no leftover cgroup, any set of clients whose      *)
(* wpa_cli stays silent with its stdout open.  The interpreter keeps        *)
(* executing the orchestrator while a step is possible; the read on a       *)
(* stream that yields nothing and is not closed is no step.                 *)
InitLive ==
    /\ InitState
    /\ ndevs = NumClients + 1
    /\ exists = {}
    /\ cpulimit = DefaultCpuLimit
    /\ silent \in SUBSET (1..NumClients)

SpecLive == InitLive /\ [][Next]_vars /\ WF_vars(Next)

----------------------------------------------------------------------------
(* Views of the history *)

IsPrefix(a, b) == Len(a) <= Len(b) /\ SubSeq(b, 1, Len(a)) = a
In(sq, x) == \E j \in 1..Len(sq) : sq[j] = x
PosIn(sq, x) == CHOOSE j \in 1..Len(sq) : sq[j] = x
Occurs(e) == In(log, e)

KernelKinds == CGroupKinds \cup NsKinds
ScopeExited == pc = "done" /\ failedAt.phase # "discover"
WaitOver(b) == wait[b] \in {"ended", "eof"}

----------------------------------------------------------------------------
(* C1 as stated: once the scope has exited, every namespace and cgroup the  *)
(* run created is gone and every process it spawned has exited, whatever    *)
(* failed on the way.                                                       *)
C1_NothingOutlivesScope ==
    ScopeExited =>
        /\ running = {}
        /\ \A r \in created : Kind(r) \in KernelKinds => r \notin exists

(* C1 amended: once the scope has exited, every spawned process has exited, *)
(* and a namespace or cgroup the run created remains exactly when its own   *)
(* teardown action failed during the unwind.                                *)
C1_NothingOutlivesScopeButFailedTeardown ==
    ScopeExited =>
        /\ running = {}
        /\ \A j \in 1..Len(acqLog) : Kind(acqLog[j]) \in ProcKinds => acqLog[j] \in exited
        /\ \A r \in created : Kind(r) \in KernelKinds => (r \in exists <=> r \in relFailed)

C1_Witness ==
    /\ ScopeExited
    /\ failedAt.phase = "launch"
    /\ relFailed = {<<"client_ns", 0>>}
    /\ <<"ap_ns", 0>> \in created \ exists
    /\ <<"wpa_cli", 0>> \in exited

(* C2: when an acquisition (or a command right after one) fails, nothing of *)
(* the with-body runs after it: no acquisition, no barrier wait, no launch; *)
(* the resources pushed so far are released once each, newest first.        *)
C2_AbortAndReverseRelease ==
    failedAt.phase \in {"acquire", "launch"} =>
        /\ pc \in {"unwind", "done"}
        /\ \A f \in 1..Len(log) :
               log[f].ev = "raise" =>
                   \A j \in (f + 1)..Len(log) :
                       log[j].ev \in {"release", "term"} /\ log[j].c = "__exit__"
        /\ IsPrefix(relLog, Reverse(acqLog))
        /\ pc = "done" => relLog = Reverse(acqLog)

C2_Witness ==
    /\ pc = "done"
    /\ failedAt.phase = "acquire"
    /\ Len(acqLog) >= 5
    /\ relLog = Reverse(acqLog)

(* C3: when the teardown of one resource fails during the unwind, the      *)
(* unwind goes on: everything acquired before that resource is still on the *)
(* stack or has had its teardown invoked, and at the end every teardown has *)
(* been invoked, in reverse order of acquisition.                           *)
C3_ReleaseFailureDoesNotStopUnwind ==
    relFailed # {} =>
        /\ IsPrefix(relLog, Reverse(acqLog))
        /\ (pc = "unwind" /\ rel = "idle") =>
               stack = SubSeq(acqLog, 1, Len(acqLog) - Len(relLog))
        /\ pc = "done" => relLog = Reverse(acqLog)

C3_Witness ==
    /\ pc = "done"
    /\ <<"client_ns", 0>> \in relFailed
    /\ In(relLog, <<"ap_ns", 0>>)
    /\ PosIn(relLog, <<"ap_ns", 0>>) > PosIn(relLog, <<"client_ns", 0>>)
    /\ <<"ap_ns", 0>> \notin exists

NsCreated == {r \in created : Kind(r) \in NsKinds}
NsDeletes == SelectSeq(relLog, LAMBDA r : Kind(r) \in NsKinds)

(* C4 as stated: a run of test(num_clients = C) that succeeds has created   *)
(* exactly C + 1 namespaces, and at the end of any run as many namespace    *)
(* deletions have been performed as namespace creations succeeded.          *)
C4_NamespaceCount ==
    pc = "done" =>
        /\ failedAt = NoFailure => Cardinality(NsCreated) = NumClients + 1
        /\ Len(NsDeletes) = Cardinality(NsCreated)

(* C5: the barrier waits are sequential, in client order: a wait ends only  *)
(* on a marker line or at end of output, the wait on the next client starts *)
(* only after that, and no two waits are in progress at once.               *)
C5_SequentialWaits ==
    /\ \A b \in 1..NumClients :
           /\ wait[b] = "ended" => In(consumed[b], Marker)
           /\ wait[b] = "idle" => consumed[b] = << >>
           /\ (b < NumClients /\ wait[b + 1] # "idle") => WaitOver(b)
    /\ Cardinality({b \in 1..NumClients : wait[b] = "waiting"}) <= 1

C5_Witness ==
    /\ pc = "launch"
    /\ wait[1] = "ended"
    /\ wait[2] = "eof"
    /\ consumed[1] = << "other", Marker >>

(* C6: the wait ends at the first marker line: the marker is the last line  *)
(* consumed from that stream, terminate() has been called on that wpa_cli   *)
(* by then, and the wait on the next client has not started before.         *)
C6_StopAtFirstMarker ==
    \A b \in 1..NumClients :
        \A j \in 1..Len(consumed[b]) :
            consumed[b][j] = Marker =>
                /\ j = Len(consumed[b])
                /\ wait[b] # "waiting"
                /\ termCalls[WpaCli(b)] >= 1
                /\ \E t \in 1..Len(log) :
                       /\ log[t] = Ev("term", WpaCli(b), "barrier")
                       /\ \A w \in 1..(t - 1) : log[w].ev # "wait" \/ log[w].r[2] < b

C6_Witness ==
    /\ consumed[1] = << "other", Marker >>
    /\ termCalls[WpaCli(1)] = 1
    /\ wait[2] = "eof"
    /\ pc = "launch"

(* C7: a stream that ends without the marker ends the wait without an       *)
(* error; the run goes on to the next client and, unless something else     *)
(* fails, launches an iperf client in every client namespace.               *)
C7_EofIsNotAnError ==
    \A b \in 1..NumClients :
        (wait[b] = "eof" /\ ~In(consumed[b], Marker)) =>
            /\ ~(failedAt.phase = "barrier" /\ failedAt.idx = b)
            /\ bi > b
            /\ (pc \in {"unwind", "done"} /\ failedAt = NoFailure) =>
                   \A i \in 0..(NClients - 1) : In(acqLog, <<"iperf_c", i>>)

C7_Witness ==
    /\ pc = "done"
    /\ failedAt = NoFailure
    /\ wait[1] = "eof"
    /\ wait[2] = "ended"
    /\ {<<"iperf_c", 0>>, <<"iperf_c", 1>>} \subseteq exited

(* C8: no iperf client is launched before the wait of every client has      *)
(* ended, and the launches follow the order in which the client namespaces  *)
(* were acquired.                                                           *)
C8_LaunchAfterAllWaits ==
    LET L == SelectSeq(acqLog, LAMBDA r : Kind(r) = "iperf_c")
        N == SelectSeq(acqLog, LAMBDA r : Kind(r) = "client_ns")
    IN  /\ L # << >> => \A b \in 1..NClients : WaitOver(b)
        /\ Len(L) <= Len(N)
        /\ \A j \in 1..Len(L) : L[j][2] = N[j][2]

C8_Witness ==
    /\ pc = "unwind"
    /\ In(acqLog, <<"iperf_c", 0>>)
    /\ In(acqLog, <<"iperf_c", 1>>)
    /\ relLog = << >>

APReady ==
    { Ev("push", <<"ap_ns", 0>>, "netns add"),
      Ev("cmd", <<"ap_ns", 0>>, "move_phy"),
      Ev("cmd", <<"ap_ns", 0>>, "link set name"),
      Ev("cmd", <<"ap_ns", 0>>, "addr add"),
      Ev("push", <<"hostapd", 0>>, "daemon"),
      Ev("push", <<"iperf_s", 0>>, "daemon") }

ClientSetupEv(e) ==
    /\ e.ev \in {"push", "cmd"}
    /\ Kind(e.r) \in {"client_ns", "wpa_supplicant", "wpa_cli"}

(* C9: as soon as any client namespace is created, client device moved or   *)
(* client daemon spawned, the AP namespace has been created, the AP device  *)
(* moved, renamed and addressed, and hostapd and the iperf server spawned   *)
(* and pushed on the stack.                                                 *)
C9_APBeforeClients ==
    (\E j \in 1..Len(log) : ClientSetupEv(log[j])) =>
        /\ \A e \in APReady : Occurs(e)
        /\ In(acqLog, <<"hostapd", 0>>) /\ In(acqLog, <<"iperf_s", 0>>)

C9_Witness ==
    /\ pc = "acquire"
    /\ Occurs(Ev("push", <<"client_ns", 0>>, "netns add"))
    /\ In(stack, <<"hostapd", 0>>)
    /\ In(stack, <<"iperf_s", 0>>)

(* C10 as stated: with fewer devices than num_clients + 1, discovery fails  *)
(* with SetupError and the run acquires nothing.                            *)
C10_TooFewDevicesIsSetupError ==
    (ndevs < NumClients + 1 /\ pc # "discover") =>
        /\ pc = "done"
        /\ failedAt.phase = "discover"
        /\ failedAt.err = "SetupError"
        /\ acqLog = << >>

----------------------------------------------------------------------------
(* C11: the release of a Daemon does not raise and ends with the process    *)
(* waited for and exited, both when terminate() reached a running process   *)
(* ("sent") and when the process had already exited, on its own or after    *)
(* the barrier's terminate() ("gone").                                      *)
C11_ReleaseOfExitedDaemonIsSafe ==
    [][ (rel \in {"sent", "gone"} /\ rel' = "idle") =>
           /\ Top(stack) \in exited'
           /\ Top(stack) \notin running'
           /\ relFailed' = relFailed
           /\ stack' = Rest(stack, FALSE)
           /\ pc' = "unwind" ]_vars

(* the Daemon.__exit__ of a wpa_cli the barrier had terminated finds it gone *)
C11_Witness ==
    /\ rel = "gone"
    /\ Kind(Top(stack)) = "wpa_cli"
    /\ termCalls[Top(stack)] = 2
    /\ wait[Top(stack)[2] + 1] = "ended"

----------------------------------------------------------------------------
(* C12: a cgroup __exit__ that gets as far as rmdir has first moved the own *)
(* pid to the parent, so the orchestrator itself never keeps the group      *)
(* busy; the group is removed only when it has no member left; and when a   *)
(* task of another origin is still a member, rmdir fails, the __exit__      *)
(* raises and the group remains.                                            *)
C12_MigrateThenRemove ==
    \A cg \in CGroups :
        In(relLog, cg) =>
            /\ cgFail[cg] # "tasks" => cg \notin selfIn
            /\ cgFail[cg] = "busy" => cg \in foreign
            /\ cg \in foreign => cgFail[cg] = "busy" /\ cg \in exists /\ cg \in relFailed
            /\ cgFail[cg] = "none" <=> cg \notin exists
            /\ cg \notin exists => cg \notin selfIn /\ cg \notin foreign

(* the CPU cgroup, which listed the orchestrator, was emptied and removed,  *)
(* while the cpuset cgroup, holding another task, was left in place         *)
C12_Witness ==
    /\ pc = "done"
    /\ Occurs(Ev("cmd", <<"cpu_cg", 0>>, "tasks"))
    /\ In(relLog, <<"cpu_cg", 0>>) /\ <<"cpu_cg", 0>> \notin exists
    /\ selfIn = {}
    /\ cgFail[<<"cpuset_cg", 0>>] = "busy" /\ <<"cpuset_cg", 0>> \in exists

----------------------------------------------------------------------------
RECURSIVE Val(_)
Val(text) == IF text = << >> THEN 0 ELSE 10 * Val(SubSeq(text, 1, Len(text) - 1)) + text[Len(text)]

Written(f) == files[f] # << >>

(* C13: whatever the CPU limit, the period is written as 100000 and the     *)
(* quota as cpulimit * 1000 microseconds (50 gives 50000); nothing is       *)
(* written before the CPU cgroup is entered, the period comes first, and    *)
(* both are in place when the orchestrator enrolls itself.                  *)
C13_PeriodAndQuota ==
    /\ Written("cpu.cfs_period_us") =>
           /\ files["cpu.cfs_period_us"] = << 1, 0, 0, 0, 0, 0 >>
           /\ In(acqLog, <<"cpu_cg", 0>>)
    /\ Written("cpu.cfs_quota_us") =>
           /\ Val(files["cpu.cfs_quota_us"]) = cpulimit * 1000
           /\ cpulimit = 50 => files["cpu.cfs_quota_us"] = << 5, 0, 0, 0, 0 >>
           /\ Written("cpu.cfs_period_us")
    /\ Occurs(Ev("cmd", <<"cpu_cg", 0>>, "tasks")) \/ selfIn # {} =>
           Written("cpu.cfs_period_us") /\ Written("cpu.cfs_quota_us")

(* a limit of 50 per cent: quota 50000 written, the orchestrator enrolled *)
C13_Witness ==
    /\ cpulimit = 50
    /\ files["cpu.cfs_quota_us"] = << 5, 0, 0, 0, 0 >>
    /\ <<"cpu_cg", 0>> \in selfIn

----------------------------------------------------------------------------
(* C14 as stated: the release of a supervised process raises exactly when   *)
(* terminate() failed with something other than "no such process"; only     *)
(* that one failure is swallowed.                                           *)
C14_OnlyMissingProcessSwallowed ==
    [][ (rel # "idle" /\ rel' = "idle") =>
           (Top(stack) \in relFailed' <=> rel = "error") ]_vars

----------------------------------------------------------------------------
(* C15 as stated: over any run terminate() is called at most once on each   *)
(* supervised process, a wpa_cli the barrier terminated included.           *)
C15_TerminateAtMostOnce ==
    \A d \in AllDaemons : termCalls[d] <= 1

BarrierTerms(d) ==
    IF Kind(d) = "wpa_cli" /\ In(consumed[d[2] + 1], Marker) THEN 1 ELSE 0

ExitTerms(d) == IF In(relLog, d) THEN 1 ELSE 0

(* C15, amended: terminate() is called on a supervised process once by the  *)
(* barrier, if it is a wpa_cli whose output showed the marker, and once     *)
(* more by its Daemon.__exit__ at scope exit; so never more than twice, and *)
(* twice only on a wpa_cli that reported the connection.                    *)
C15_TerminateOncePerSite ==
    \A d \in AllDaemons : termCalls[d] = BarrierTerms(d) + ExitTerms(d)

(* a connected wpa_cli was terminated by the barrier and again at release,  *)
(* its supplicant once                                                      *)
C15_Witness ==
    /\ pc = "done"
    /\ termCalls[<<"wpa_cli", 0>>] = 2
    /\ termCalls[<<"wpa_supplicant", 0>>] = 1
    /\ <<"wpa_cli", 0>> \in exited

----------------------------------------------------------------------------
(* C16: once the deletion of a namespace has been invoked, no process       *)
(* started inside it is still running, and none is released afterwards:     *)
(* every one of them was released and waited for before, on normal          *)
(* completion as on the unwind after a failure.                             *)
C16_NamespaceDeletedAfterItsProcesses ==
    \A j \in 1..Len(relLog) :
        Kind(relLog[j]) \in NsKinds =>
            /\ \A p \in running : NsOf(p) # relLog[j]
            /\ j < Len(relLog) /\ Kind(relLog[Len(relLog)]) \in ProcKinds =>
                   NsOf(relLog[Len(relLog)]) # relLog[j]

(* normal completion with one client: both namespaces deleted, the five     *)
(* processes started in them exited                                         *)
C16_Witness ==
    /\ pc = "done" /\ failedAt = NoFailure
    /\ In(relLog, <<"ap_ns", 0>>) /\ In(relLog, <<"client_ns", 0>>)
    /\ { <<"hostapd", 0>>, <<"iperf_s", 0>>, <<"wpa_supplicant", 0>>,
         <<"wpa_cli", 0>>, <<"iperf_c", 0>> } \subseteq exited

----------------------------------------------------------------------------
(* the wait on client b has been entered *)
InWait(b) == wait[b] # "idle" \/ (pc = "barrier" /\ bi = b)

BlockedIn(b) ==
    /\ pc = "barrier" /\ bi = b
    /\ wait[b] \in {"idle", "waiting"}
    /\ \A k \in (b + 1)..NumClients : wait[k] = "idle"
    /\ li = 1 /\ \A p \in running : Kind(p) # "iperf_c"
    /\ relLog = << >> /\ failedAt = NoFailure

LaunchReached ==
    /\ pc = "launch" /\ li = 1
    /\ \A b \in 1..NClients : WaitOver(b)

(* C17: the wait has no timeout.  Once the wait on a client whose stream    *)
(* neither yields the marker nor closes is entered, the orchestrator stays  *)
(* in it: no later wait starts, no iperf client is launched, nothing is     *)
(* released, the scope is not left.  When every stream yields the marker or *)
(* closes, the barrier is left for the launch loop with all waits over,     *)
(* unless a terminate() of the barrier raised.                              *)
C17_NoTimeout ==
    /\ [](\A b \in silent : InWait(b) => BlockedIn(b))
    /\ (silent = {} /\ pc = "barrier") ~> (LaunchReached \/ failedAt.phase = "barrier")

(* blocked in the second client's wait, after the first one connected *)
C17_Witness ==
    /\ silent = {2}
    /\ wait[1] = "ended" /\ wait[2] = "waiting"
    /\ pc = "barrier" /\ bi = 2
    /\ LinesRead(NumClients) = MaxLines

----------------------------------------------------------------------------
(* C18: terminate() is never called on an iperf client; its release is the  *)
(* wait for it to exit; and as soon as anything else has been released      *)
(* (a daemon terminated, a namespace, cgroup or directory torn down), every *)
(* iperf client that was launched has exited.                               *)
C18_IperfClientsWaitedFirst ==
    /\ pc = "unwind" => \A j \in 1..Len(log) :
                            log[j].ev = "term" => Kind(log[j].r) # "iperf_c"
    /\ \A j \in 1..Len(relLog) :
           IF Kind(relLog[j]) = "iperf_c"
           THEN relLog[j] \in exited
           ELSE \A p \in running : Kind(p) # "iperf_c"

(* both iperf clients have been waited for, the first daemon to be released *)
(* is being terminated                                                      *)
C18_Witness ==
    /\ pc = "unwind" /\ rel = "sent"
    /\ relLog = << <<"iperf_c", 1>>, <<"iperf_c", 0>>, <<"wpa_cli", 1>> >>
    /\ {<<"iperf_c", 0>>, <<"iperf_c", 1>>} \subseteq exited
    /\ termCalls[<<"wpa_cli", 1>>] = 1

----------------------------------------------------------------------------
(* C19: once the __exit__ of a cgroup has been invoked, every process of    *)
(* the run that was enrolled in it (all children for the CPU group, the     *)
(* iperf server and clients for the cpuset group) has exited: the group has *)
(* no member of the run but, at most, the orchestrator, and a refused       *)
(* rmdir is due to a task of another origin, never to the run's children.   *)
C19_CGroupOutlivesItsMembers ==
    \A cg \in CGroups :
        In(relLog, cg) =>
            /\ Members(cg) = {}
            /\ \A j \in 1..Len(acqLog) :
                   (/\ Kind(acqLog[j]) \in ProcKinds
                    /\ Kind(cg) = "cpuset_cg" => Kind(acqLog[j]) \in {"iperf_s", "iperf_c"})
                   => acqLog[j] \in exited
            /\ cgFail[cg] = "busy" => cg \in foreign /\ Members(cg) = {}

(* a complete run: both cgroups were created and removed again, after the   *)
(* iperf server and client, enrolled in both, had exited                    *)
C19_Witness ==
    /\ pc = "done" /\ failedAt = NoFailure
    /\ CGroups \subseteq created /\ CGroups \cap exists = {}
    /\ {<<"iperf_s", 0>>, <<"iperf_c", 0>>, <<"hostapd", 0>>} \subseteq exited
    /\ PosIn(relLog, <<"iperf_s", 0>>) < PosIn(relLog, <<"cpuset_cg", 0>>)

====
